---- MODULE Spec2Model ----
(***************************************************************************)
(* The streaming ingestion core of the KAN Ensemble dashboard: the         *)
(* Dashboard component (registry `tickers`, stores `stockData`,            *)
(* `stockStatus`, `stockLogs`), its message router `handleMessage`, the    *)
(* reset handlers and the derived global statistics, together with the     *)
(* per-entity metrics of StockCard.                                        *)
(*                                                                         *)
(* The component is a React function component.  A state setter queues an  *)
(* update; a functional updater (prev => ...) is applied to the latest     *)
(* queued value, so the four store variables below hold the hook state     *)
(* with every queued update applied.  What a handler reads directly (not   *)
(* through `prev`) is the value its render captured: `rendered`.           *)
(***************************************************************************)
EXTENDS Integers, Sequences, FiniteSets, TLC

(***************************************************************************)
(* Bounds of the model.                                                    *)
(***************************************************************************)
MaxMsgs == 2        \* messages delivered on the channel in one behaviour
MaxResets == 1      \* clicks on Run or Reset in one behaviour
MaxViewMsgs == 3    \* messages delivered in one behaviour of SpecView

(***************************************************************************)
(* Message vocabulary (spec section 6, part_002 lines 25-37).              *)
(***************************************************************************)
Tickers == {"AAPL", "MSFT"}
\* `[ticker]` with ticker undefined is the property key "undefined".
NoTicker == "undefined"
Keys == Tickers \cup {NoTicker}
KnownTypes == {"status", "log", "error", "data"}
\* "ping" stands for every type that none of the four branches tests for.
Types == KnownTypes \cup {"ping"}
\* The text of the message with identity seq: no two messages share a text,
\* so an overwrite, a lost line and a reordering all show in the stores.
Text(seq) == "line " \o ToString(seq)
\* Only status, log and error messages carry a text (spec section 6).
TextOf(type, seq) ==
  IF type \in {"status", "log", "error"} THEN Text(seq) ELSE ""

(***************************************************************************)
(* JavaScript values of the numeric fields: undefined, NaN, an infinity,   *)
(* or a number kept as an exact fraction n/d (d > 0, lowest terms).        *)
(***************************************************************************)
Undefined == [k |-> "undefined", n |-> 0, d |-> 1]
NaN == [k |-> "NaN", n |-> 0, d |-> 1]
Infinity == [k |-> "Infinity", n |-> 1, d |-> 1]

RECURSIVE GCD(_, _)
GCD(a, b) == IF b = 0 THEN a ELSE GCD(b, a % b)

AbsInt(i) == IF i < 0 THEN -i ELSE i

Frac(n, d) ==
  LET g == GCD(AbsInt(n), AbsInt(d))
      s == IF d < 0 THEN -1 ELSE 1
  IN  [k |-> "number", n |-> (s * n) \div g, d |-> (s * d) \div g]

Num(i) == Frac(i, 1)

IsNumber(x) == x.k = "number"

\* ToBoolean: undefined, NaN and 0 are falsy.
Truthy(x) == x.k = "Infinity" \/ (x.k = "number" /\ x.n # 0)

\* ToNumber(undefined) is NaN; the infinities arise from no guarded division
\* of the router, so sums and differences are taken over numbers only.
JsSub(a, b) ==
  IF IsNumber(a) /\ IsNumber(b) THEN Frac(a.n * b.d - b.n * a.d, a.d * b.d)
  ELSE NaN

JsAdd(a, b) ==
  IF IsNumber(a) /\ IsNumber(b) THEN Frac(a.n * b.d + b.n * a.d, a.d * b.d)
  ELSE NaN

JsMul(a, b) ==
  IF IsNumber(a) /\ IsNumber(b) THEN Frac(a.n * b.n, a.d * b.d)
  ELSE NaN

JsDiv(a, b) ==
  IF IsNumber(a) /\ IsNumber(b)
  THEN IF b.n # 0 THEN Frac(a.n * b.d, a.d * b.n)
       ELSE IF a.n = 0 THEN NaN ELSE Infinity
  ELSE NaN

MathAbs(a) == IF IsNumber(a) THEN Frac(AbsInt(a.n), a.d) ELSE a

(***************************************************************************)
(* A message as JSON.parse returns it.  `seq` is the identity of the       *)
(* MessageEvent (the dependency array compares lastMessage by reference)   *)
(* and serves as the `date` label of a data message.  `run` is not on the  *)
(* wire: it records which run of the backend produced the message.         *)
(***************************************************************************)
\* The fields of a data message that only StockCard reads; absent in every
\* other message.  `weights` is an array or absent, agent_action a string or
\* absent ("" here: absent and "" are both falsy).
NoWeights == [present |-> FALSE, v |-> <<>>]
Weights(v) == [present |-> TRUE, v |-> v]
NoAction == ""

Message(seq, type, ticker, message, actual, adaptive, run) ==
  [seq |-> seq, type |-> type, ticker |-> ticker, message |-> message,
   actual |-> actual, adaptive |-> adaptive, run |-> run,
   weights |-> NoWeights, agent_action |-> NoAction,
   agent_amount |-> Undefined, agent_balance |-> Undefined,
   portfolio_value |-> Undefined]

\* lastMessage before any message: null.
Null == Message(0, "null", NoTicker, "", Undefined, Undefined, 0)

VARIABLES
  tickers,      \* useState([]): the registry, in discovery order
  stockData,    \* useState({}): key -> sequence of data messages
  stockStatus,  \* useState({}): key -> status string
  stockLogs,    \* useState({}): key -> sequence of log strings
  lastMessage,  \* useWebSocket: the latest MessageEvent, or Null
  rendered,     \* what the latest render read: its tickers and lastMessage
  effect,       \* the lastMessage effect waiting to run, with its closure
  sent,         \* number of {action: 'start'} commands sent
  epoch,        \* number of resets so far (history)
  priorRun,     \* keys with a time series when the last reset came (history)
  delivered,    \* messages delivered since the last reset (history)
  handled       \* messages handleMessage was called with since then (history)

stores == <<tickers, stockData, stockStatus, stockLogs>>
vars == <<tickers, stockData, stockStatus, stockLogs, lastMessage, rendered,
          effect, sent, epoch, priorRun, delivered, handled>>

NoEffect == [on |-> FALSE, msg |-> Null, tickers |-> <<>>]
EmptyObject == [x \in {} |-> <<>>]

Init ==
  /\ tickers = <<>>
  /\ stockData = EmptyObject
  /\ stockStatus = EmptyObject
  /\ stockLogs = EmptyObject
  /\ lastMessage = Null
  /\ rendered = [tickers |-> <<>>, lastMessage |-> 0]
  /\ effect = NoEffect
  /\ sent = 0
  /\ epoch = 0
  /\ priorRun = {}
  /\ delivered = <<>>
  /\ handled = <<>>

(***************************************************************************)
(* Object and array helpers.                                               *)
(***************************************************************************)
\* { ...prev, [key]: value }
Spread(prev, key, value) ==
  [x \in (DOMAIN prev) \cup {key} |-> IF x = key THEN value ELSE prev[x]]

\* prev[key] || []
OrEmpty(prev, key) == IF key \in DOMAIN prev THEN prev[key] ELSE <<>>

\* array.includes(x)
Includes(array, x) == \E i \in 1..Len(array) : array[i] = x

\* The error text without its tag.
ErrorTextPlain(message) == message

\* `Error: ${message}`
ErrorText(message) == "Error: " \o message

(***************************************************************************)
(* handleMessage (part_002 lines 25-49), one operator per state setter.    *)
(* `prev` is the argument of the functional updater; `seen` is the         *)
(* `tickers` constant of the render that created the running closure.      *)
(***************************************************************************)
\* The 'status' branch as a final else: every other type sets the status.
statusAfterDefault(msg, prev) ==
  IF msg.type = "error" THEN Spread(prev, msg.ticker, ErrorText(msg.message))
  ELSE IF msg.type \in {"log", "data"} THEN prev
       ELSE Spread(prev, msg.ticker, msg.message)

\* setStockStatus: the 'status' branch and the 'error' branch.
statusAfter(msg, prev) ==
  IF msg.type = "status" THEN Spread(prev, msg.ticker, msg.message)
  ELSE IF msg.type = "error"
       THEN Spread(prev, msg.ticker, ErrorText(msg.message))
       ELSE prev

\* setStockLogs: the 'log' branch.
logsAfter(msg, prev) ==
  IF msg.type = "log"
  THEN Spread(prev, msg.ticker, Append(OrEmpty(prev, msg.ticker), msg.message))
  ELSE prev

\* A variant that keeps only the newest point of a series.
dataAfterNewestOnly(msg, prev) ==
  IF msg.type = "data"
  THEN Spread(prev, msg.ticker, <<msg>>)
  ELSE prev

\* setStockData: the 'data' branch appends the whole message.
dataAfter(msg, prev) ==
  IF msg.type = "data"
  THEN Spread(prev, msg.ticker, Append(OrEmpty(prev, msg.ticker), msg))
  ELSE prev

\* setTickers: the 'data' branch tests the render's `tickers`, not `prev`.
tickersAfter(msg, seen, prev) ==
  IF msg.type = "data" /\ ~Includes(seen, msg.ticker)
  THEN Append(prev, msg.ticker)
  ELSE prev

\* A router that stops serving a ticker whose status is an error.
handleMessageUnlessFailed(msg, seen) ==
  IF /\ msg.ticker \in DOMAIN stockStatus
     /\ stockStatus[msg.ticker] \in {ErrorText(Text(i)) : i \in 1..MaxMsgs}
  THEN UNCHANGED stores
  ELSE /\ stockStatus' = statusAfter(msg, stockStatus)
       /\ stockLogs' = logsAfter(msg, stockLogs)
       /\ stockData' = dataAfter(msg, stockData)
       /\ tickers' = tickersAfter(msg, seen, tickers)

handleMessage(msg, seen) ==
  /\ stockStatus' = statusAfter(msg, stockStatus)
  /\ stockLogs' = logsAfter(msg, stockLogs)
  /\ stockData' = dataAfter(msg, stockData)
  /\ tickers' = tickersAfter(msg, seen, tickers)

(***************************************************************************)
(* The channel.  onmessage stores the event in lastMessage; nothing is     *)
(* queued, so a message that arrives before the previous one was rendered  *)
(* replaces it.                                                            *)
(***************************************************************************)
Payload(type, ticker, actual, adaptive) ==
  [type |-> type, ticker |-> ticker, actual |-> actual, adaptive |-> adaptive,
   weights |-> NoWeights, agent_action |-> NoAction,
   agent_amount |-> Undefined, agent_balance |-> Undefined,
   portfolio_value |-> Undefined]

\* A data message with the fields of the trading agent and the ensemble.
CardPayload(ticker, actual, adaptive, weights, action, amount, balance, value) ==
  [type |-> "data", ticker |-> ticker, actual |-> actual,
   adaptive |-> adaptive, weights |-> weights, agent_action |-> action,
   agent_amount |-> amount, agent_balance |-> balance,
   portfolio_value |-> value]

\* The vocabulary of the router specification: every type, with and without
\* a ticker; a data message carries one fixed observation.
RouterPayloads ==
  {Payload(ty, k, Undefined, Undefined) :
     ty \in {"status", "log", "error", "ping"}, k \in Keys}
  \cup {Payload("data", k, Num(100), Num(102)) : k \in Keys}

\* handleReset closes nothing and tells the backend nothing, so a message of
\* the run before the last reset can still arrive.
Runs == {r \in {epoch - 1, epoch} : r >= 0}

DeliverUpTo(payloads, max) ==
  /\ lastMessage.seq < max
  /\ \E p \in payloads, r \in Runs :
       lastMessage' =
         [Message(lastMessage.seq + 1, p.type, p.ticker,
                  TextOf(p.type, lastMessage.seq + 1), p.actual, p.adaptive, r)
            EXCEPT !.weights = p.weights,
                   !.agent_action = p.agent_action,
                   !.agent_amount = p.agent_amount,
                   !.agent_balance = p.agent_balance,
                   !.portfolio_value = p.portfolio_value]
  /\ delivered' = Append(delivered, lastMessage')
  /\ UNCHANGED <<stores, rendered, effect, sent, epoch, priorRun, handled>>

Deliver(payloads) == DeliverUpTo(payloads, MaxMsgs)

(***************************************************************************)
(* Rendering (part_002 lines 8-23).  A render reads the hook state and     *)
(* creates the closures; when lastMessage differs from the one of the      *)
(* previous render, the effect of lines 18-23 is scheduled with them.      *)
(* React runs a scheduled effect before it renders again.                  *)
(***************************************************************************)
RenderWith(seen) ==
  /\ ~effect.on
  /\ <<seen, lastMessage.seq>> # <<rendered.tickers, rendered.lastMessage>>
  /\ rendered' = [tickers |-> seen, lastMessage |-> lastMessage.seq]
  /\ effect' = IF lastMessage.seq # rendered.lastMessage
               THEN [on |-> TRUE, msg |-> lastMessage, tickers |-> seen]
               ELSE NoEffect
  /\ UNCHANGED <<stores, lastMessage, sent, epoch, priorRun, delivered,
                 handled>>

\* A render that takes every queued update.
Render == RenderWith(tickers)

\* A render of the lastMessage update alone, ahead of the updates the
\* previous effect queued (an urgent update is rendered first): the
\* closures keep the tickers of the render before.
RenderLastMessage ==
  /\ lastMessage.seq # rendered.lastMessage
  /\ rendered.tickers # tickers
  /\ RenderWith(rendered.tickers)

\* useEffect(() => { if (lastMessage !== null) handleMessage(JSON.parse(...)) })
RunEffect ==
  /\ effect.on
  /\ handleMessage(effect.msg, effect.tickers)
  /\ effect' = NoEffect
  /\ handled' = Append(handled, effect.msg)
  /\ UNCHANGED <<lastMessage, rendered, sent, epoch, priorRun, delivered>>

(***************************************************************************)
(* The click handlers (part_002 lines 51-66).  The four updates of a       *)
(* handler are rendered together and at once, so the closures of the next  *)
(* render see an empty registry.                                           *)
(***************************************************************************)
\* A reset that forgets the logs.
clearAllButLogs ==
  /\ stockData' = EmptyObject
  /\ stockStatus' = EmptyObject
  /\ tickers' = <<>>
  /\ UNCHANGED stockLogs

clearAll ==
  /\ stockData' = EmptyObject
  /\ stockStatus' = EmptyObject
  /\ stockLogs' = EmptyObject
  /\ tickers' = <<>>

Clicked ==
  /\ epoch < MaxResets
  /\ epoch' = epoch + 1
  /\ priorRun' = DOMAIN stockData
  /\ rendered' = [rendered EXCEPT !.tickers = <<>>]
  /\ delivered' = <<>>
  /\ handled' = <<>>
  /\ UNCHANGED <<lastMessage, effect>>

handleReset ==
  /\ clearAll
  /\ Clicked
  /\ UNCHANGED sent

handleRun ==
  /\ clearAll
  /\ Clicked
  /\ sent' = sent + 1

(***************************************************************************)
(* Per-entity metrics of StockCard (StockCard.jsx lines 27-29).            *)
(***************************************************************************)
\* data[data.length - 1] || {}: the fields of {} are undefined.
latest(data) ==
  IF Len(data) > 0 THEN data[Len(data)]
  ELSE [seq |-> 0, actual |-> Undefined, adaptive |-> Undefined,
        weights |-> NoWeights, agent_action |-> NoAction,
        agent_amount |-> Undefined, agent_balance |-> Undefined,
        portfolio_value |-> Undefined]

\* latest.actual && latest.adaptive ? latest.adaptive - latest.actual : 0
error(data) ==
  IF Truthy(latest(data).actual) /\ Truthy(latest(data).adaptive)
  THEN JsSub(latest(data).adaptive, latest(data).actual)
  ELSE Num(0)

\* A card that does not guard the division by latest.actual.
errorPctUnguarded(data) ==
  JsMul(JsDiv(error(data), latest(data).actual), Num(100))

\* latest.actual ? (error / latest.actual) * 100 : 0
errorPct(data) ==
  IF Truthy(latest(data).actual)
  THEN JsMul(JsDiv(error(data), latest(data).actual), Num(100))
  ELSE Num(0)

(***************************************************************************)
(* The card of a ticker (part_002 lines 122-130 and StockCard.jsx).  The   *)
(* Dashboard renders one card per entry of `tickers` and passes it the     *)
(* series, the status and the log of the ticker; it passes no              *)
(* initialCapital, so the card's prop of that name is undefined.           *)
(***************************************************************************)
\* data={stockData[ticker] || []} and logs={stockLogs[ticker] || []}
cardData(ticker) == OrEmpty(stockData, ticker)
cardLogs(ticker) == OrEmpty(stockLogs, ticker)

initialCapital == Undefined

\* Math.min of two arguments: NaN if one of them is (undefined * 2 is NaN).
MathMin(a, b) ==
  IF IsNumber(a) /\ IsNumber(b)
  THEN IF a.n * b.d <= b.n * a.d THEN a ELSE b
  ELSE NaN

\* The agent statistics are shown when latest.agent_balance !== undefined.
agentStatsShown(data) == latest(data).agent_balance # Undefined

\* (latest.portfolio_value - initialCapital) / initialCapital * 100
returnPct(data, capital) ==
  JsMul(JsDiv(JsSub(latest(data).portfolio_value, capital), capital),
        Num(100))

\* CustomDot: null, or the marker of a trade.
NoDot == [shown |-> FALSE, isBuy |-> FALSE, size |-> Undefined]

markerSize(payload) ==
  JsAdd(MathMin(JsMul(payload.agent_amount, Num(2)), Num(20)), Num(4))

CustomDot(payload) ==
  IF payload.agent_action = NoAction \/ payload.agent_action = "HOLD"
  THEN NoDot
  ELSE [shown |-> TRUE, isBuy |-> payload.agent_action = "BUY",
        size |-> markerSize(payload)]

\* {latest.adaptive && <ReferenceDot x={latest.date} y={latest.adaptive} />}
NoHighlight == [shown |-> FALSE, x |-> 0, y |-> Undefined]

ReferenceDot(data) ==
  IF Truthy(latest(data).adaptive)
  THEN [shown |-> TRUE, x |-> latest(data).seq, y |-> latest(data).adaptive]
  ELSE NoHighlight

(***************************************************************************)
(* The weight chart (StockCard.jsx lines 31-42 and 169-189).  An object is *)
(* a function of its keys; the callback of `map` touches two objects per   *)
(* point: d, the stored observation, and w, which `const w = {}` creates.  *)
(***************************************************************************)
\* `model_${idx}`
ModelKey(idx) == "model_" \o ToString(idx)

\* if (d.weights) d.weights.forEach((val, idx) => { object[key] = val })
withModels(object, weights) ==
  IF weights.present
  THEN LET indices == 0..(Len(weights.v) - 1)
           idx(key) == CHOOSE i \in indices : ModelKey(i) = key
       IN  [key \in {ModelKey(i) : i \in indices} |-> weights.v[idx(key) + 1]]
             @@ object
  ELSE object

\* A callback that writes the components into the observation itself.
weightsPointInPlace(d) ==
  LET written == withModels(d, d.weights)
  IN  [d |-> written, result |-> written]

\* The callback: forEach writes into w, { ...d, ...w } is a new object.
weightsPoint(d) ==
  LET w == withModels(EmptyObject, d.weights)
  IN  [d |-> d, result |-> w @@ d]

weightsData(data) == [p \in 1..Len(data) |-> weightsPoint(data[p]).result]

\* latest.weights ? latest.weights.length : 0
numModels(data) ==
  IF latest(data).weights.present THEN Len(latest(data).weights.v) ELSE 0

\* One <Area dataKey={`model_${i}`}> per i < numModels over weightsData; a
\* point without the key contributes nothing to the stack.
Areas(data) ==
  [p \in 1..Len(data) |->
     [i \in 0..(numModels(data) - 1) |->
        IF ModelKey(i) \in DOMAIN weightsData(data)[p]
        THEN weightsData(data)[p][ModelKey(i)]
        ELSE 0]]

(***************************************************************************)
(* The log console (StockCard.jsx lines 195-199).  Of the two arrays the   *)
(* expression touches, `logs` is the prop, the very array of stockLogs,    *)
(* and `copy` the one that slice() creates.                                *)
(***************************************************************************)
Reverse(array) == [i \in 1..Len(array) |-> array[Len(array) + 1 - i]]

\* array.slice() returns a new array with the same elements.
slice(heap, from, to) == [heap EXCEPT ![to] = heap[from]]

\* array.reverse() reverses the array in place and returns it.
reverse(heap, at) == [heap EXCEPT ![at] = Reverse(heap[at])]

\* A console that reverses the prop itself: logs.reverse().map(...)
logsShownInPlace(logs) ==
  LET heap == reverse([logs |-> logs, copy |-> <<>>], "logs")
  IN  [logs |-> heap.logs, shown |-> heap.logs]

\* logs.slice().reverse().map(...)
logsShown(logs) ==
  LET heap == reverse(slice([logs |-> logs, copy |-> <<>>], "logs", "copy"),
                      "copy")
  IN  [logs |-> heap.logs, shown |-> heap.copy]

\* tickers.map(ticker => <StockCard ... />): a render of the cards leaves
\* in the stores what the expressions above leave in the objects they touch.
RenderStockCards ==
  /\ tickers # <<>>
  /\ stockData' =
       [k \in DOMAIN stockData |->
          IF Includes(tickers, k)
          THEN [p \in 1..Len(stockData[k]) |-> weightsPoint(stockData[k][p]).d]
          ELSE stockData[k]]
  /\ stockLogs' =
       [k \in DOMAIN stockLogs |->
          IF Includes(tickers, k) THEN logsShown(stockLogs[k]).logs
          ELSE stockLogs[k]]
  /\ UNCHANGED <<tickers, stockStatus, lastMessage, rendered, effect, sent,
                 epoch, priorRun, delivered, handled>>

(***************************************************************************)
(* Global statistics of the Dashboard (part_002 lines 68-77), computed by  *)
(* a render from the hook state.                                           *)
(***************************************************************************)
activeTickers == Len(tickers)

\* Object.values(stockData).reduce(step, initial): both reducers below are
\* sums, which do not depend on the order of the keys.
totalPointsStep(acc, curr) == acc + Len(curr)

RECURSIVE totalPointsOver(_, _)
totalPointsOver(object, keys) ==
  IF keys = {} THEN 0
  ELSE LET k == CHOOSE x \in keys : TRUE
       IN  totalPointsStep(totalPointsOver(object, keys \ {k}), object[k])

totalPoints == totalPointsOver(stockData, DOMAIN stockData)

avgErrorStep(acc, curr) ==
  IF Len(curr) = 0 THEN acc
  ELSE LET last == curr[Len(curr)] IN
       IF ~Truthy(last.actual) THEN acc
       ELSE JsAdd(acc,
                  JsMul(MathAbs(JsDiv(JsSub(last.adaptive, last.actual),
                                      last.actual)),
                        Num(100)))

RECURSIVE avgErrorOver(_, _)
avgErrorOver(object, keys) ==
  IF keys = {} THEN Num(0)
  ELSE LET k == CHOOSE x \in keys : TRUE
       IN  avgErrorStep(avgErrorOver(object, keys \ {k}), object[k])

\* ... / (activeTickers || 1)
avgError ==
  JsDiv(avgErrorOver(stockData, DOMAIN stockData),
        Num(IF activeTickers # 0 THEN activeTickers ELSE 1))

Next ==
  \/ Deliver(RouterPayloads)
  \/ Render
  \/ RenderLastMessage
  \/ RunEffect
  \/ handleReset
  \/ handleRun

Spec == Init /\ [][Next]_vars

(***************************************************************************)
(* The same program fed with data messages only, whose observations range  *)
(* over a present, a zero and an absent actual and adaptive value.         *)
(***************************************************************************)
MetricPayloads ==
  {Payload("data", k, actual, adaptive) :
     k \in Tickers,
     actual \in {Undefined, Num(0), Num(100)},
     adaptive \in {Undefined, Num(0), Num(102)}}
  \cup {Payload("data", k, Num(100), Num(104)) : k \in Tickers}

NextMetrics ==
  \/ Deliver(MetricPayloads)
  \/ Render
  \/ RenderLastMessage
  \/ RunEffect
  \/ handleReset
  \/ handleRun

SpecMetrics == Init /\ [][NextMetrics]_vars

(***************************************************************************)
(* The same program fed with the observations a card distinguishes: a      *)
(* present, a zero and an absent actual and adaptive value, weight vectors *)
(* of different lengths or none, and trades with and without an amount.    *)
(***************************************************************************)
Plain(actual, adaptive) ==
  CardPayload("AAPL", actual, adaptive, NoWeights, NoAction, Undefined,
              Undefined, Undefined)

CardPayloads ==
  {CardPayload("AAPL", Num(100), Num(102), Weights(<<1, 1, 2>>), "BUY",
               Num(20), Num(500), Num(1100)),
   CardPayload("AAPL", Num(100), Undefined, Weights(<<3>>), "HOLD", Num(5),
               Undefined, Undefined),
   CardPayload("AAPL", Num(100), Num(0), NoWeights, "BUY", Num(0),
               Undefined, Undefined),
   CardPayload("AAPL", Num(0), Num(102), NoWeights, "SELL", Undefined,
               Undefined, Undefined),
   Plain(Num(0), Num(0)), Plain(Num(0), Undefined),
   Plain(Undefined, Num(102)), Plain(Undefined, Num(0)),
   Plain(Undefined, Undefined)}

NextCard ==
  \/ Deliver(CardPayloads)
  \/ Render
  \/ RenderLastMessage
  \/ RunEffect
  \/ handleReset
  \/ handleRun
  \/ RenderStockCards

SpecCard == Init /\ [][NextCard]_vars

(***************************************************************************)
(* The same program fed with weighted observations and log lines of one    *)
(* ticker, long enough for a card with a log of two lines.                 *)
(***************************************************************************)
ViewPayloads ==
  {CardPayload("AAPL", Num(100), Num(102), Weights(<<1, 1, 2>>), "BUY",
               Num(20), Num(500), Num(1100)),
   CardPayload("AAPL", Num(100), Undefined, Weights(<<3>>), "HOLD", Num(5),
               Undefined, Undefined),
   Payload("log", "AAPL", Undefined, Undefined)}

NextView ==
  \/ DeliverUpTo(ViewPayloads, MaxViewMsgs)
  \/ Render
  \/ RenderLastMessage
  \/ RunEffect
  \/ handleReset
  \/ handleRun
  \/ RenderStockCards

SpecView == Init /\ [][NextView]_vars

(***************************************************************************)
(* Vocabulary of the properties.                                           *)
(***************************************************************************)
\* Nothing is in flight: the latest message was rendered and its effect ran.
Quiescent == ~effect.on /\ rendered.lastMessage = lastMessage.seq

\* The step is a call of handleMessage with m.
Handles(m) == effect.on /\ effect.msg = m /\ handled' = Append(handled, m)

\* The step is a click on Reset or Run.
Resets == epoch' = epoch + 1

StoresEmpty ==
  /\ tickers = <<>>
  /\ DOMAIN stockData = {}
  /\ DOMAIN stockStatus = {}
  /\ DOMAIN stockLogs = {}

HasEntry(k) ==
  \/ \E i \in 1..Len(tickers) : tickers[i] = k
  \/ k \in DOMAIN stockData
  \/ k \in DOMAIN stockStatus
  \/ k \in DOMAIN stockLogs

DataStored(k) == IF k \in DOMAIN stockData THEN stockData[k] ELSE <<>>
LogsStored(k) == IF k \in DOMAIN stockLogs THEN stockLogs[k] ELSE <<>>

InSeq(x, seq) == \E i \in 1..Len(seq) : seq[i] = x

IsDataFor(k, m) == m.type = "data" /\ m.ticker = k
IsLogFor(k, m) == m.type = "log" /\ m.ticker = k
IsStatusFor(k, m) == m.type \in {"status", "error"} /\ m.ticker = k

(***************************************************************************)
(* C1.  Once nothing is in flight, the data messages for a key that were   *)
(* delivered since the last reset are all in stockData[key], once each     *)
(* and in arrival order: none is lost, duplicated or reordered, also when  *)
(* several messages arrive before the lastMessage effect runs.             *)
(***************************************************************************)
DataDelivered(k) == SelectSeq(delivered, LAMBDA m : IsDataFor(k, m))
StoredOfDelivered(k) == SelectSeq(DataStored(k), LAMBDA m : InSeq(m, delivered))

C1_NoDeliveredDataLost ==
  Quiescent => \A k \in Tickers : StoredOfDelivered(k) = DataDelivered(k)

(***************************************************************************)
(* C2.  Registration is idempotent: the registry never holds a key twice.  *)
(***************************************************************************)
C2_RegistryHasNoDuplicate ==
  \A i, j \in 1..Len(tickers) : i # j => tickers[i] # tickers[j]

(***************************************************************************)
(* C3.  A reset yields, in one step and from any state, the state with an  *)
(* empty registry and no entry in any store; a reset taken when everything *)
(* is already empty leaves the registry and the stores unchanged.          *)
(***************************************************************************)
C3_ResetClearsEverything ==
  [][Resets => /\ StoresEmpty'
               /\ (StoresEmpty => UNCHANGED stores)]_vars

\* A reset taken mid-stream: the latest message was a data message handled
\* before the reset (nothing was handled since), and nothing is left of it.
C3_ResetMidStream ==
  /\ epoch = 1
  /\ handled = <<>>
  /\ Quiescent
  /\ IsDataFor("AAPL", lastMessage)
  /\ StoresEmpty

(***************************************************************************)
(* C4.  Post-reset isolation: a ticker that had data before the last reset *)
(* and for which, since that reset, only messages of the earlier run       *)
(* arrived and were handled, has no entry in the registry or in any store. *)
(***************************************************************************)
OnlyStaleSince(k) ==
  /\ \E i \in 1..Len(handled) : handled[i].ticker = k
  /\ \A i \in 1..Len(handled) :
       handled[i].ticker = k =>
         handled[i].run < epoch /\ InSeq(handled[i], delivered)

C4_PostResetIsolation ==
  \A k \in Tickers : k \in priorRun /\ OnlyStaleSince(k) => ~HasEntry(k)

(***************************************************************************)
(* C5.  Handling a message of an unknown type changes neither the registry *)
(* nor a store nor what the next handler call will read, so every later    *)
(* message is handled as if it had not been delivered.                     *)
(***************************************************************************)
C5_UnknownTypeDropped ==
  [][\A m \in {effect.msg} :
       Handles(m) /\ m.type \notin KnownTypes => UNCHANGED <<stores, rendered>>]_vars

\* An unknown message was handled and a data message after it was stored.
C5_DataAfterUnknown ==
  /\ Len(handled) = 2
  /\ handled[1].type = "ping"
  /\ IsDataFor("MSFT", handled[2])
  /\ DataStored("MSFT") = <<handled[2]>>
  /\ DOMAIN stockStatus = {} /\ DOMAIN stockLogs = {}

(***************************************************************************)
(* C6.  A message without a ticker is dropped: nothing is registered or    *)
(* stored under the key of an absent ticker.                               *)
(***************************************************************************)
C6_NoTickerDropped == ~HasEntry(NoTicker)

(***************************************************************************)
(* C7.  Handling a status message for a ticker sets its status to the      *)
(* message text, handling an error message sets it to "Error: " followed   *)
(* by the text; whatever the status was before, the status of every other  *)
(* key, the registry, the time series and the logs are unchanged.          *)
(***************************************************************************)
C7_StatusOverwritesOnlyItsKey ==
  [][\A m \in {effect.msg} :
       Handles(m) /\ m.type \in {"status", "error"} /\ m.ticker \in Tickers =>
         /\ DOMAIN stockStatus' = DOMAIN stockStatus \cup {m.ticker}
         /\ stockStatus'[m.ticker] =
              IF m.type = "status" THEN m.message ELSE "Error: " \o m.message
         /\ \A k \in DOMAIN stockStatus \ {m.ticker} :
              stockStatus'[k] = stockStatus[k]
         /\ UNCHANGED <<tickers, stockData, stockLogs>>]_vars

\* A status was overwritten by an error, beside another key's status.
C7_ErrorOverStatus ==
  /\ Len(handled) = 2
  /\ handled[1].type = "status" /\ handled[1].ticker = "AAPL"
  /\ handled[2].type = "error" /\ handled[2].ticker = "AAPL"
  /\ stockStatus["AAPL"] = "Error: line 2"

(***************************************************************************)
(* C8.  An error message is not absorbing: every message handled after an  *)
(* error message (since the last reset) took effect as usual.  Its data    *)
(* message is in the time series of its key, its log line is in the log    *)
(* of its key, and the latest status or error message of a key is the      *)
(* status of that key.                                                     *)
(***************************************************************************)
AfterAnError(j) == \E i \in 1..(j - 1) : handled[i].type = "error"

LatestStatus(j) ==
  \A l \in (j + 1)..Len(handled) : ~IsStatusFor(handled[j].ticker, handled[l])

C8_ErrorNotAbsorbing ==
  \A j \in 1..Len(handled) :
    AfterAnError(j) =>
      LET m == handled[j] IN
      /\ m.type = "data" => InSeq(m, DataStored(m.ticker))
      /\ m.type = "log" => InSeq(m.message, LogsStored(m.ticker))
      /\ m.type = "status" /\ LatestStatus(j) =>
           m.ticker \in DOMAIN stockStatus /\ stockStatus[m.ticker] = m.message
      /\ m.type = "error" /\ LatestStatus(j) =>
           /\ m.ticker \in DOMAIN stockStatus
           /\ stockStatus[m.ticker] = "Error: " \o m.message

\* An error for a ticker, then a status message for it that replaced it.
C8_StatusAfterError ==
  /\ Len(handled) = 2
  /\ handled[1].type = "error" /\ handled[1].ticker = "AAPL"
  /\ handled[2].type = "status" /\ handled[2].ticker = "AAPL"
  /\ stockStatus["AAPL"] = "line 2"

(***************************************************************************)
(* C9.  Once nothing is in flight, the log lines delivered for a key since *)
(* the last reset are all in stockLogs[key], oldest first, none missing.   *)
(***************************************************************************)
LogsDelivered(k) ==
  LET ms == SelectSeq(delivered, LAMBDA m : IsLogFor(k, m))
  IN  [i \in 1..Len(ms) |-> ms[i].message]

LogsOfDelivered(k) ==
  SelectSeq(LogsStored(k),
            LAMBDA t : \E i \in 1..Len(delivered) :
                         IsLogFor(k, delivered[i]) /\ delivered[i].message = t)

C9_LogIsWhatWasDelivered ==
  Quiescent => \A k \in Tickers : LogsOfDelivered(k) = LogsDelivered(k)

(***************************************************************************)
(* C10.  avgError is the sum of |errorPct| of the registered entities      *)
(* divided by max(1, number of registered entities), and it is a number    *)
(* (not NaN, not an infinity).  Stated for the states whose registry holds *)
(* exactly the keys of the time series, each once.                         *)
(***************************************************************************)
Registered == {tickers[i] : i \in 1..Len(tickers)}

RegistryMatchesData ==
  C2_RegistryHasNoDuplicate /\ Registered = DOMAIN stockData

RECURSIVE SumAbsErrorPct(_)
SumAbsErrorPct(keys) ==
  IF keys = {} THEN Num(0)
  ELSE LET k == CHOOSE x \in keys : TRUE
       IN  JsAdd(SumAbsErrorPct(keys \ {k}), MathAbs(errorPct(DataStored(k))))

MeanAbsErrorPct ==
  JsDiv(SumAbsErrorPct(Registered),
        Num(IF Len(tickers) > 1 THEN Len(tickers) ELSE 1))

C10_AvgErrorIsMeanAbsErrorPct ==
  RegistryMatchesData => IsNumber(avgError) /\ avgError = MeanAbsErrorPct

(***************************************************************************)
(* C11.  The price error of a card is adaptive - actual of its latest      *)
(* observation, or 0 when one of the two is absent or zero; its percentage *)
(* error is priceError / actual * 100 when actual is present and non-zero  *)
(* and 0 otherwise.  For an empty series both are 0, and the percentage    *)
(* error is a number in every case, never NaN or Infinity.                 *)
(***************************************************************************)
PresentNonZero(x) == IsNumber(x) /\ x.n # 0

\* e = adaptive - actual and pct = e / actual * 100, as equations between
\* integers.
IsDifference(e, adaptive, actual) ==
  e.n * adaptive.d * actual.d =
    (adaptive.n * actual.d - actual.n * adaptive.d) * e.d

IsPercentageOf(pct, e, actual) ==
  pct.n * e.d * actual.n = 100 * e.n * actual.d * pct.d

C11_CardErrorGuarded ==
  \A k \in Tickers :
    LET data == cardData(k)
        e == error(data)
        pct == errorPct(data)
    IN  /\ IsNumber(e) /\ IsNumber(pct)
        /\ IF data = <<>> THEN e = Num(0) /\ pct = Num(0)
           ELSE LET o == data[Len(data)]
                IN  /\ IF PresentNonZero(o.actual) /\ PresentNonZero(o.adaptive)
                       THEN IsDifference(e, o.adaptive, o.actual)
                       ELSE e = Num(0)
                    /\ IF PresentNonZero(o.actual)
                       THEN IsPercentageOf(pct, e, o.actual)
                       ELSE pct = Num(0)

\* After an observation of 100 against 102 (2 percent), the latest
\* observation of the card has an actual of zero and a forecast.
C11_ZeroActualAfterError ==
  /\ Len(cardData("AAPL")) = 2
  /\ errorPct(<<cardData("AAPL")[1]>>) = Num(2)
  /\ latest(cardData("AAPL")).actual = Num(0)
  /\ latest(cardData("AAPL")).adaptive = Num(102)
  /\ errorPct(cardData("AAPL")) = Num(0)

(***************************************************************************)
(* C12.  The return percentage a card displays is                          *)
(* (portfolioValue - initialCapital) / initialCapital * 100 when           *)
(* initialCapital is greater than 0 and 0 otherwise: for a zero, negative  *)
(* or missing initialCapital it is 0, never NaN or Infinity.               *)
(***************************************************************************)
C12_ReturnPctGuarded ==
  \A k \in Registered :
    LET data == cardData(k)
        value == latest(data).portfolio_value
        shown == returnPct(data, initialCapital)
    IN  agentStatsShown(data) =>
          /\ IsNumber(shown)
          /\ shown = IF IsNumber(initialCapital) /\ initialCapital.n > 0
                     THEN JsMul(JsDiv(JsSub(value, initialCapital),
                                      initialCapital), Num(100))
                     ELSE Num(0)

(***************************************************************************)
(* C13.  A trade marker is drawn for an observation only if its            *)
(* agentAction is BUY or SELL: none is drawn when the action is HOLD or    *)
(* absent, and none when its agentAmount is 0.                             *)
(***************************************************************************)
C13_MarkerOnlyForTrade ==
  \A k \in Registered :
    \A p \in 1..Len(cardData(k)) :
      LET o == cardData(k)[p]
      IN  CustomDot(o).shown =>
            /\ o.agent_action \in {"BUY", "SELL"}
            /\ o.agent_amount # Num(0)

(***************************************************************************)
(* C14.  The size of every marker drawn is a number from 4 to 24, also     *)
(* for an observation that has no agentAmount.                             *)
(***************************************************************************)
C14_MarkerSizeInRange ==
  \A k \in Registered :
    \A p \in 1..Len(cardData(k)) :
      LET dot == CustomDot(cardData(k)[p])
      IN  dot.shown =>
            /\ IsNumber(dot.size)
            /\ 4 * dot.size.d <= dot.size.n
            /\ dot.size.n <= 24 * dot.size.d

(***************************************************************************)
(* C15.  The highlight of the current prediction sits on the most recent   *)
(* observation that has a forecast, and is drawn whenever some observation *)
(* of the series has one, also when the last observation has none.  (An    *)
(* observation counts as having a forecast when its adaptive is present    *)
(* and non-zero.)                                                          *)
(***************************************************************************)
WithForecast(data) ==
  {p \in 1..Len(data) : PresentNonZero(data[p].adaptive)}

MostRecent(points) == CHOOSE p \in points : \A q \in points : q <= p

C15_HighlightOnLatestForecast ==
  \A k \in Registered :
    LET data == cardData(k)
    IN  WithForecast(data) # {} =>
          LET o == data[MostRecent(WithForecast(data))]
          IN  ReferenceDot(data) = [shown |-> TRUE, x |-> o.seq,
                                    y |-> o.adaptive]

(***************************************************************************)
(* C16.  Every component of the weight vector of every observation is part *)
(* of the displayed composition, with its stored value, whatever the       *)
(* length of the weight vector of the latest observation.                  *)
(***************************************************************************)
C16_EveryComponentDisplayed ==
  \A k \in Registered :
    LET data == cardData(k)
    IN  \A p \in 1..Len(data) :
          \A i \in 0..(Len(data[p].weights.v) - 1) :
            /\ i \in DOMAIN Areas(data)[p]
            /\ Areas(data)[p][i] = data[p].weights.v[i + 1]

(***************************************************************************)
(* C17.  Rendering the cards changes nothing that is stored: the metrics,  *)
(* the weight chart and the newest-first log console leave the registry,   *)
(* every stored observation with its weights, every log (still oldest      *)
(* first) and the status table as they were.                               *)
(***************************************************************************)
C17_CardRenderLeavesStores ==
  [][RenderStockCards => UNCHANGED stores]_vars

\* A card is on display with a weighted observation and a log of two
\* lines, which its console shows newest first.
C17_CardWithWeightsAndLog ==
  /\ ENABLED RenderStockCards
  /\ "AAPL" \in Registered
  /\ latest(cardData("AAPL")).weights.present
  /\ Len(weightsData(cardData("AAPL"))) >= 1
  /\ Len(cardLogs("AAPL")) = 2
  /\ logsShown(cardLogs("AAPL")).shown # cardLogs("AAPL")
  /\ logsShown(cardLogs("AAPL")).shown[1] = cardLogs("AAPL")[2]

(***************************************************************************)
(* C18.  In every reachable state totalPoints, the sum of the lengths of   *)
(* all time series, is the number of data messages handled since the last  *)
(* reset: status, log, error and unknown messages leave it alone and a     *)
(* reset brings it back to 0.                                              *)
(***************************************************************************)
IsData(m) == m.type = "data"

C18_TotalPointsCountsHandledData ==
  totalPoints = Len(SelectSeq(handled, IsData))

\* Two data messages were handled and both are counted.
C18_TwoPointsCounted ==
  /\ Len(SelectSeq(handled, IsData)) = 2
  /\ totalPoints = 2

(***************************************************************************)
(* C19.  The registered tickers are exactly the tickers that have a time   *)
(* series: no time series exists for a ticker that is not registered, and  *)
(* no ticker is registered without one.                                    *)
(***************************************************************************)
C19_RegisteredIffSeries ==
  Registered = DOMAIN stockData
====
